---- MODULE Spec2Model ----
(***************************************************************************)
(* HyperlaneRegistration/main.py as a state machine.                      *)
(*                                                                         *)
(* One asyncio task per account (start_work) runs behind an                *)
(* asyncio.Semaphore; inside it the worker's check_eligible coroutine,     *)
(* wrapped by async_error_handler, does the eligibility query, the         *)
(* registration query, the signing and the submission.  An action of the   *)
(* model is one step of the event loop: a task runs from the point where   *)
(* it was resumed to its next suspension point (a network round trip, the  *)
(* retry delay, the wait for a semaphore slot).                            *)
(***************************************************************************)
EXTENDS Integers, Sequences, FiniteSets, TLC

VARIABLES
    accounts,      \* the batch: accounts[a] is the private key of row a
    bound,         \* the value the semaphore is constructed with
    faultsLeft,    \* failing responses the environment may still produce
    mainPc,        \* position of main()
    procPc,        \* position of the __main__ script around asyncio.run
    banner,        \* 'The work completed' has been logged
    created,       \* number of tasks main() has created so far
    value,         \* Semaphore._value
    waiters,       \* Semaphore._waiters, oldest first
    slots,         \* tasks that currently hold an admission slot
    admitted,      \* the tasks in the order they got their admission slot
    pc,            \* position of each start_work task
    i,             \* the wrapper's loop variable of the account's call
    amount,        \* check_eligible's local variable amount
    result,        \* what the wrapped check_eligible returned to start_work
    report,        \* the terminal decision check_eligible logged
    errLogged,     \* 'check_eligible: ...' error lines of the wrapper
    delays,        \* asyncio.sleep(2) calls of the wrapper
    failedLogged,  \* 'ID account:.. Failed' lines of start_work
    calls,         \* eligibility queries, registration queries, sign calls
                   \* and submissions of the account, over all attempts
    trace,         \* calls made by the current attempt, in order
    eligSeen,      \* eligibility answer received by the current attempt
    regSeen,       \* registration answer received by the current attempt
    signedLog,     \* messages signed by the current attempt
    postLog,       \* claims posted by the current attempt
    postSeen       \* validationResult.success received by the current attempt

vars == <<accounts, bound, faultsLeft, mainPc, procPc, banner, created, value,
          waiters, slots, admitted, pc, i, amount, result, report, errLogged,
          delays, failedLogged, calls, trace, eligSeen, regSeen, signedLog,
          postLog, postSeen>>

-----------------------------------------------------------------------------
(* Bounds of the model *)

\* The larger the batch, the fewer failing requests: a batch of n rows sees
\* at most MaxFaults + 1 - n of them under Spec (small batches, enough
\* failures to exhaust an account), MaxBatch + 1 - n under BatchSpec (larger
\* batches).
MaxAccounts == 2
MaxBound == 2
MaxFaults == 4
MaxBatch == 3

(* Program constants *)

retries == 3

-----------------------------------------------------------------------------
(* Inputs *)

\* A private key is an integer; 0 is not a valid secp256k1 key, so that
\* Account().from_key raises on it (as on any malformed cell of the sheet).
BadKey == 0

ValidKey(k) == k # BadKey

\* JSON null, standing for any amount that is not a string.
JsonNull == "null"

\* response.eligibilities of an eligibility answer: a list of amounts.
EligibilityLists == {<<>>, <<"100", "250">>, <<JsonNull>>}

\* an answer saying not eligible carries no eligibilities
EligibilityResponses ==
    {r \in [isEligible : BOOLEAN, eligibilities : EligibilityLists] :
        r.isEligible \/ r.eligibilities = <<>>}

RegistrationMessages == {"Success", "Not found"}

Unbound == "unbound"

Accounts == 1..Len(accounts)

-----------------------------------------------------------------------------
(* Signer *)

\* Account.from_key(...).address
address(key) == <<"address", key>>

\* the typed-data message built by create_message
message(key, amt) ==
    [eligibleAddress |-> address(key), chainId |-> "10", amount |-> amt,
     receivingAddress |-> address(key), tokenType |-> "HYPER"]

\* encode_typed_data rejects a value of a 'string' field that is no string
Encodable(msg) == msg.amount # JsonNull

\* Account.sign_message(...).signature.hex(): deterministic ECDSA over the
\* digest of the message, no "0x" prefix
create_message(key, amt) == <<"sig", key, message(key, amt)>>

claim_unprefixed(key, signature, amt) ==
    [eligibleAddress |-> address(key), chainId |-> 10,
     eligibleAddressType |-> "ethereum", receivingAddress |-> address(key),
     signature |-> signature, tokenType |-> "HYPER", amount |-> amt]

\* the wallet entry of the save-registration body
claim(key, signature, amt) ==
    [eligibleAddress |-> address(key), chainId |-> 10,
     eligibleAddressType |-> "ethereum", receivingAddress |-> address(key),
     signature |-> <<"0x", signature>>, tokenType |-> "HYPER", amount |-> amt]

-----------------------------------------------------------------------------
(* Decisions of check_eligible and of the wrapper *)

IsEligible_always(r) == TRUE

\* if response_json['response']['isEligible']
IsEligible(r) == r.isEligible

AmountOf_last(es) == es[Len(es)]

\* response_json["response"]["eligibilities"][0]["amount"]
AmountOf(es) == es[1]

AlreadyRegistered_never(m) == FALSE

AlreadyRegistered_inverted(m) == m # "Success"

\* if response_json['message'] == 'Success'
AlreadyRegistered(m) == m = "Success"

Registered_inverted(success) ==
    IF success THEN "RegisteredFailure" ELSE "RegisteredSuccess"

\* if response_json['validationResult']['success']
Registered(success) ==
    IF success THEN "RegisteredSuccess" ELSE "RegisteredFailure"

\* what an attempt can raise: a transport failure, a response of unexpected
\* shape (no JSON, a missing field, an empty list), an error of the signer
ErrorKinds == {"transport", "protocol", "signing"}

Caught_transport_only(kind) == kind = "transport"

\* except Exception as e
Caught(kind) == kind \in ErrorKinds

wrapper_reraises(n) == IF n = retries - 1 THEN "raise" ELSE "sleep"

\* what the wrapper does after logging the exception of attempt n
wrapper(n) == IF n = retries - 1 THEN "return 0" ELSE "sleep"

NextAttempt_skips(n) == n + 2

\* for i in range(0, retries)
NextAttempt(n) == n + 1

-----------------------------------------------------------------------------
(* asyncio.Semaphore *)

locked_never(v, ws) == FALSE

\* Semaphore.locked()
locked(v, ws) == v = 0 \/ \E k \in 1..Len(ws) : pc[ws[k]] = "waiting"

NextWaiter_newest ==
    LET idx == {k \in 1..Len(waiters) : pc[waiters[k]] = "waiting"}
    IN  IF idx = {} THEN 0
        ELSE waiters[CHOOSE k \in idx : \A m \in idx : k >= m]

\* the waiter _wake_up_next hands the slot to: the oldest future not done
NextWaiter ==
    LET idx == {k \in 1..Len(waiters) : pc[waiters[k]] = "waiting"}
    IN  IF idx = {} THEN 0
        ELSE waiters[CHOOSE k \in idx : \A m \in idx : k <= m]

Released_forgotten(v, w) == v

\* Semaphore._value after release(): incremented, and decremented again
\* when a waiter w is woken
Released(v, w) == IF w = 0 THEN v + 1 ELSE v

Without(ws, a) == SelectSeq(ws, LAMBDA x : x # a)

\* __aexit__ of 'async with semaphore' in task a, which ends in state to
Exit(a, to) ==
    LET w == NextWaiter
    IN  /\ value' = Released(value, w)
        /\ slots' = (slots \ {a}) \cup (IF w = 0 THEN {} ELSE {w})
        /\ admitted' = (IF w = 0 THEN admitted ELSE Append(admitted, w))
        /\ pc' = [b \in DOMAIN pc |->
                    IF b = a THEN to
                    ELSE IF b = w THEN "granted" ELSE pc[b]]
        /\ waiters' = Without(waiters, a)

-----------------------------------------------------------------------------
\* a batch of n rows; row a holds a malformed key or the valid key a
Batches(n) == {b \in [1..n -> {BadKey} \cup (1..n)] :
                  \A a \in 1..n : b[a] \in {BadKey, a}}

\* the state when asyncio.run(main()) is entered, for a batch of at most
\* maxN rows and an environment that fails at most maxFaults + 1 - n requests
\* of a batch of n rows
InitWith(maxN, maxFaults) ==
    /\ \E n \in 1..maxN :
          /\ accounts \in Batches(n)
          /\ faultsLeft = maxFaults + 1 - n
    /\ bound \in 1..MaxBound
    /\ mainPc = "spawn"
    /\ procPc = "run"
    /\ banner = FALSE
    /\ created = 0
    /\ value = bound
    /\ waiters = <<>>
    /\ slots = {}
    /\ admitted = <<>>
    /\ pc = [a \in Accounts |-> "none"]
    /\ i = [a \in Accounts |-> 0]
    /\ amount = [a \in Accounts |-> Unbound]
    /\ result = [a \in Accounts |-> "pending"]
    /\ report = [a \in Accounts |-> "none"]
    /\ errLogged = [a \in Accounts |-> 0]
    /\ delays = [a \in Accounts |-> 0]
    /\ failedLogged = [a \in Accounts |-> 0]
    /\ calls = [a \in Accounts |->
                  [elig |-> 0, reg |-> 0, sign |-> 0, post |-> 0]]
    /\ trace = [a \in Accounts |-> <<>>]
    /\ eligSeen = [a \in Accounts |-> <<>>]
    /\ regSeen = [a \in Accounts |-> <<>>]
    /\ signedLog = [a \in Accounts |-> <<>>]
    /\ postLog = [a \in Accounts |-> <<>>]
    /\ postSeen = [a \in Accounts |-> <<>>]

Init == InitWith(MaxAccounts, MaxFaults)

BatchInit == InitWith(MaxBatch, MaxBatch)

config == <<accounts, bound>>
runner == <<mainPc, procPc, banner, created>>
semaphore == <<value, waiters, slots, admitted>>
logs == <<report, errLogged, delays, failedLogged>>
attempt == <<i, amount, calls, trace, eligSeen, regSeen, signedLog, postLog,
             postSeen>>

-----------------------------------------------------------------------------
(* main: the list comprehension creates the tasks, gather awaits them *)

create_task ==
    /\ mainPc = "spawn"
    /\ created < Len(accounts)
    /\ created' = created + 1
    /\ pc' = [pc EXCEPT ![created + 1] = "created"]
    /\ UNCHANGED <<config, faultsLeft, mainPc, procPc, banner, semaphore,
                   result, logs, attempt>>

gather ==
    /\ mainPc = "spawn"
    /\ created = Len(accounts)
    /\ mainPc' = "gather"
    /\ UNCHANGED <<config, faultsLeft, procPc, banner, created, semaphore, pc,
                   result, logs, attempt>>

-----------------------------------------------------------------------------
(* start_work *)

Ended == {"done", "raised", "cancelled"}

\* Every task has run its first step.  The ready queue of the loop is FIFO
\* and the tasks were queued by main() before it suspended in gather, so the
\* first steps of all tasks run, in the order of creation, before the loop
\* polls for any response or timer.
FirstStepsDone == \A a \in Accounts : pc[a] \notin {"none", "created"}

StartAttempt_resumes(a, n) ==
    /\ i' = [i EXCEPT ![a] = n]
    /\ calls' = [calls EXCEPT ![a].elig = @ + 1]
    /\ trace' = [trace EXCEPT ![a] = <<"elig">>]
    /\ eligSeen' = [eligSeen EXCEPT ![a] = <<>>]
    /\ UNCHANGED <<amount, regSeen, signedLog, postLog, postSeen>>

\* one call of the wrapped function: a fresh ClientSession, fresh locals,
\* and the eligibility query sent
StartAttempt(a, n) ==
    /\ i' = [i EXCEPT ![a] = n]
    /\ amount' = [amount EXCEPT ![a] = Unbound]
    /\ calls' = [calls EXCEPT ![a].elig = @ + 1]
    /\ trace' = [trace EXCEPT ![a] = <<"elig">>]
    /\ eligSeen' = [eligSeen EXCEPT ![a] = <<>>]
    /\ regSeen' = [regSeen EXCEPT ![a] = <<>>]
    /\ signedLog' = [signedLog EXCEPT ![a] = <<>>]
    /\ postLog' = [postLog EXCEPT ![a] = <<>>]
    /\ postSeen' = [postSeen EXCEPT ![a] = <<>>]

\* the first step of task a: Semaphore.acquire, and with a free slot the
\* body of the async with up to its first suspension.  The worker is
\* constructed outside the try, so that a malformed key leaves start_work
\* as an exception, through the __aexit__ of the semaphore.
acquire(a) ==
    /\ mainPc = "gather"
    /\ pc[a] = "created"
    /\ \A b \in 1..(a - 1) : pc[b] # "created"
    /\ \/ /\ ~locked(value, waiters)
          /\ ValidKey(accounts[a])
          /\ value' = value - 1
          /\ slots' = slots \cup {a}
          /\ admitted' = Append(admitted, a)
          /\ StartAttempt(a, 0)
          /\ pc' = [pc EXCEPT ![a] = "elig"]
          /\ UNCHANGED waiters
       \/ /\ ~locked(value, waiters)
          /\ ~ValidKey(accounts[a])
          /\ value' = Released(value - 1, 0)
          /\ admitted' = Append(admitted, a)
          /\ pc' = [pc EXCEPT ![a] = "raised"]
          /\ UNCHANGED <<waiters, slots, attempt>>
       \/ /\ locked(value, waiters)
          /\ waiters' = Append(waiters, a)
          /\ pc' = [pc EXCEPT ![a] = "waiting"]
          /\ UNCHANGED <<value, slots, admitted, attempt>>
    /\ UNCHANGED <<config, faultsLeft, runner, result, logs>>

\* task a resumes in acquire with the slot a release handed to it, and runs
\* the body of the async with up to its first suspension
start_work(a) ==
    /\ FirstStepsDone
    /\ pc[a] = "granted"
    /\ \/ /\ ValidKey(accounts[a])
          /\ StartAttempt(a, 0)
          /\ pc' = [pc EXCEPT ![a] = "elig"]
          /\ waiters' = Without(waiters, a)
          /\ UNCHANGED <<value, slots, admitted>>
       \/ /\ ~ValidKey(accounts[a])
          /\ Exit(a, "raised")
          /\ UNCHANGED attempt
    /\ UNCHANGED <<config, faultsLeft, runner, result, logs>>

-----------------------------------------------------------------------------
(* async_error_handler.wrapper around check_eligible *)

\* the function returned: the wrapper returns its result, start_work leaves
\* the try and the async with
Return(a, decision) ==
    /\ report' = [report EXCEPT ![a] = decision]
    /\ result' = [result EXCEPT ![a] = "None"]
    /\ Exit(a, "done")
    /\ UNCHANGED <<faultsLeft, errLogged, delays, failedLogged>>

\* the function raised an error of the given kind: the wrapper's except
\* logs it and returns the sentinel or sleeps; an exception that left the
\* wrapper would be logged by the except of start_work
Fail(a, kind) ==
    /\ faultsLeft > 0
    /\ faultsLeft' = faultsLeft - 1
    /\ UNCHANGED report
    /\ \/ /\ Caught(kind)
          /\ wrapper(i[a]) = "return 0"
          /\ errLogged' = [errLogged EXCEPT ![a] = @ + 1]
          /\ result' = [result EXCEPT ![a] = "0"]
          /\ Exit(a, "done")
          /\ UNCHANGED <<delays, failedLogged>>
       \/ /\ Caught(kind)
          /\ wrapper(i[a]) = "sleep"
          /\ errLogged' = [errLogged EXCEPT ![a] = @ + 1]
          /\ delays' = [delays EXCEPT ![a] = @ + 1]
          /\ pc' = [pc EXCEPT ![a] = "sleep"]
          /\ UNCHANGED <<semaphore, result, failedLogged>>
       \/ /\ Caught(kind)
          /\ wrapper(i[a]) = "raise"
          /\ errLogged' = [errLogged EXCEPT ![a] = @ + 1]
          /\ failedLogged' = [failedLogged EXCEPT ![a] = @ + 1]
          /\ result' = [result EXCEPT ![a] = "raised"]
          /\ Exit(a, "done")
          /\ UNCHANGED delays
       \/ /\ ~Caught(kind)
          /\ failedLogged' = [failedLogged EXCEPT ![a] = @ + 1]
          /\ result' = [result EXCEPT ![a] = "raised"]
          /\ Exit(a, "done")
          /\ UNCHANGED <<errLogged, delays>>

\* await asyncio.sleep(2) is over: the next iteration of the loop
sleep_over(a) ==
    /\ FirstStepsDone
    /\ pc[a] = "sleep"
    /\ StartAttempt(a, NextAttempt(i[a]))
    /\ pc' = [pc EXCEPT ![a] = "elig"]
    /\ UNCHANGED <<config, faultsLeft, runner, semaphore, result, logs>>

-----------------------------------------------------------------------------
(* check_eligible *)

\* a request of the attempt fails: transport error, a body that is no JSON,
\* or a body without the field the code reads
request_fails(a) ==
    /\ FirstStepsDone
    /\ pc[a] \in {"elig", "reg", "post"}
    /\ \E kind \in {"transport", "protocol"} : Fail(a, kind)
    /\ UNCHANGED <<config, runner, attempt>>

\* the answer to check-eligibility
eligibility_response(a) ==
    /\ FirstStepsDone
    /\ pc[a] = "elig"
    /\ \E r \in EligibilityResponses :
        /\ eligSeen' = [eligSeen EXCEPT ![a] = <<r>>]
        /\ \/ /\ ~IsEligible(r)
              /\ Return(a, "NotEligible")
              /\ UNCHANGED <<amount, calls, trace>>
           \/ /\ IsEligible(r)
              /\ r.eligibilities = <<>>
              /\ Fail(a, "protocol")
              /\ UNCHANGED <<amount, calls, trace>>
           \/ /\ IsEligible(r)
              /\ r.eligibilities # <<>>
              /\ amount' = [amount EXCEPT ![a] = AmountOf(r.eligibilities)]
              /\ calls' = [calls EXCEPT ![a].reg = @ + 1]
              /\ trace' = [trace EXCEPT ![a] = Append(@, "reg")]
              /\ pc' = [pc EXCEPT ![a] = "reg"]
              /\ UNCHANGED <<faultsLeft, semaphore, result, logs>>
    /\ UNCHANGED <<config, runner, i, regSeen, signedLog, postLog, postSeen>>

\* the answer to get-registration-for-address, then create_message and the
\* POST of save-registration
registration_response(a) ==
    /\ FirstStepsDone
    /\ pc[a] = "reg"
    /\ \E m \in RegistrationMessages :
        /\ regSeen' = [regSeen EXCEPT ![a] = <<m>>]
        /\ \/ /\ AlreadyRegistered(m)
              /\ Return(a, "AlreadyRegistered")
              /\ UNCHANGED <<calls, trace, signedLog, postLog>>
           \/ /\ ~AlreadyRegistered(m)
              /\ ~Encodable(message(accounts[a], amount[a]))
              /\ calls' = [calls EXCEPT ![a].sign = @ + 1]
              /\ trace' = [trace EXCEPT ![a] = Append(@, "sign")]
              /\ Fail(a, "signing")
              /\ UNCHANGED <<signedLog, postLog>>
           \/ /\ ~AlreadyRegistered(m)
              /\ Encodable(message(accounts[a], amount[a]))
              /\ calls' = [calls EXCEPT ![a].sign = @ + 1, ![a].post = @ + 1]
              /\ trace' = [trace EXCEPT ![a] = @ \o <<"sign", "post">>]
              /\ signedLog' = [signedLog EXCEPT ![a] =
                                  <<message(accounts[a], amount[a])>>]
              /\ postLog' = [postLog EXCEPT ![a] =
                                <<claim(accounts[a],
                                        create_message(accounts[a], amount[a]),
                                        amount[a])>>]
              /\ pc' = [pc EXCEPT ![a] = "post"]
              /\ UNCHANGED <<faultsLeft, semaphore, result, logs>>
    /\ UNCHANGED <<config, runner, i, amount, eligSeen, postSeen>>

\* the answer to save-registration
submission_response(a) ==
    /\ FirstStepsDone
    /\ pc[a] = "post"
    /\ \E success \in BOOLEAN :
          /\ postSeen' = [postSeen EXCEPT ![a] = <<success>>]
          /\ Return(a, Registered(success))
    /\ UNCHANGED <<config, runner, i, amount, calls, trace, eligSeen, regSeen,
                   signedLog, postLog>>

-----------------------------------------------------------------------------
(* asyncio.gather and asyncio.run *)

\* Every task finished without an exception: gather returns, main returns,
\* and asyncio.run finds no task left to cancel.
main_returns ==
    /\ mainPc = "gather"
    /\ \A a \in Accounts : pc[a] = "done"
    /\ mainPc' = "returned"
    /\ procPc' = "cleanup"
    /\ UNCHANGED <<config, faultsLeft, banner, created, semaphore, pc, result,
                   logs, attempt>>

\* gather without return_exceptions: the first exception of a task is raised
\* in main while the other tasks are still pending; asyncio.run, main() over,
\* cancels every task that is not done.
main_raises ==
    /\ mainPc = "gather"
    /\ FirstStepsDone
    /\ \E a \in Accounts : pc[a] = "raised"
    /\ mainPc' = "raised"
    /\ procPc' = "cleanup"
    /\ pc' = [a \in Accounts |-> IF pc[a] \in Ended THEN pc[a] ELSE "cancelling"]
    /\ UNCHANGED <<config, faultsLeft, banner, created, semaphore, result,
                   logs, attempt>>

\* CancelledError in task a: no except Exception catches it, the async with
\* of a task that holds a slot releases it
cancelled(a) ==
    /\ pc[a] = "cancelling"
    /\ \/ /\ a \in slots
          /\ Exit(a, "cancelled")
       \/ /\ a \notin slots
          /\ pc' = [pc EXCEPT ![a] = "cancelled"]
          /\ waiters' = Without(waiters, a)
          /\ UNCHANGED <<value, slots, admitted>>
    /\ UNCHANGED <<config, faultsLeft, runner, result, logs, attempt>>

\* asyncio.run returned: logger.success('The work completed')
the_work_completed ==
    /\ procPc = "cleanup"
    /\ mainPc = "returned"
    /\ \A a \in Accounts : pc[a] \in Ended
    /\ banner' = TRUE
    /\ procPc' = "exited"
    /\ UNCHANGED <<config, faultsLeft, mainPc, created, semaphore, pc, result,
                   logs, attempt>>

\* asyncio.run re-raised the exception of main(): the script dies
crash ==
    /\ procPc = "cleanup"
    /\ mainPc = "raised"
    /\ \A a \in Accounts : pc[a] \in Ended
    /\ procPc' = "crashed"
    /\ UNCHANGED <<config, faultsLeft, mainPc, banner, created, semaphore, pc,
                   result, logs, attempt>>

-----------------------------------------------------------------------------
Next ==
    \/ create_task
    \/ gather
    \/ \E a \in Accounts : acquire(a)
    \/ \E a \in Accounts : start_work(a)
    \/ \E a \in Accounts : sleep_over(a)
    \/ \E a \in Accounts : request_fails(a)
    \/ \E a \in Accounts : eligibility_response(a)
    \/ \E a \in Accounts : registration_response(a)
    \/ \E a \in Accounts : submission_response(a)
    \/ main_returns
    \/ main_raises
    \/ \E a \in Accounts : cancelled(a)
    \/ the_work_completed
    \/ crash

Spec == Init /\ [][Next]_vars

BatchSpec == BatchInit /\ [][Next]_vars

-----------------------------------------------------------------------------
(* Properties *)

InFlight(a) == pc[a] \in {"elig", "reg", "post"}

Count(seq, x) == Cardinality({k \in 1..Len(seq) : seq[k] = x})

AllEnded == \A a \in Accounts : pc[a] \in Ended

\* the current attempt of a was answered: eligible, and not registered
EligibleUnregistered(a) ==
    /\ eligSeen[a] # <<>>
    /\ eligSeen[a][1].isEligible
    /\ regSeen[a] # <<>>
    /\ regSeen[a][1] # "Success"

\* C1: an exception that ends an account's task (a malformed key raised while
\* the worker is constructed, or any other) is caught in start_work and
\* logged with the account's id, and no sibling task is cancelled or kept
\* from its workflow: main never raises and the batch is never aborted.
C1_ExceptionContained ==
    /\ \A a \in Accounts :
          (~ValidKey(accounts[a]) /\ pc[a] \in Ended)
             => (pc[a] = "done" /\ failedLogged[a] = 1)
    /\ \A a \in Accounts : pc[a] \notin {"raised", "cancelling", "cancelled"}
    /\ mainPc # "raised"

\* C2 as stated: an account that was eligible and not registered, and whose
\* workflow ended with the answer to its submission, got over all attempts
\* of check_eligible exactly one sign call and exactly one submission.
C2_ExactlyOneSignAndSubmit ==
    \A a \in Accounts :
        (/\ pc[a] = "done"
         /\ EligibleUnregistered(a)
         /\ report[a] \in {"RegisteredSuccess", "RegisteredFailure"})
           => (calls[a].sign = 1 /\ calls[a].post = 1)

\* C2 amended: every attempt that was answered eligible and not registered
\* makes exactly one sign call and, unless that call raises, exactly one
\* submission; over all attempts the account gets between 1 and 3 sign
\* calls, one per attempt at most, and no more submissions than sign calls.
C2_OneSignAndSubmitPerAttempt ==
    \A a \in Accounts :
        /\ EligibleUnregistered(a) =>
              /\ Count(trace[a], "sign") = 1
              /\ Count(trace[a], "post") =
                    (IF eligSeen[a][1].eligibilities[1] = JsonNull THEN 0 ELSE 1)
              /\ calls[a].sign >= 1
        /\ Count(trace[a], "sign") <= 1
        /\ Count(trace[a], "post") <= 1
        /\ calls[a].post <= calls[a].sign
        /\ calls[a].sign <= calls[a].elig
        /\ calls[a].elig <= 3

C2_Witness ==
    \E a \in Accounts :
        /\ pc[a] = "done"
        /\ EligibleUnregistered(a)
        /\ calls[a].sign = 3
        /\ calls[a].post = 3

\* C3: with the semaphore constructed with 1, no two accounts have a network
\* call in flight at the same time; with any value K, at most K tasks hold a
\* slot, and a task has a call in flight or sleeps only while it holds one.
C3_AdmissionBound ==
    /\ Cardinality(slots) <= bound
    /\ Cardinality({a \in Accounts :
                      pc[a] \in {"granted", "elig", "reg", "post", "sleep"}})
          <= bound
    /\ \A a \in Accounts : (InFlight(a) \/ pc[a] = "sleep") => a \in slots
    /\ bound = 1 => Cardinality({a \in Accounts : InFlight(a)}) <= 1

C3_Witness ==
    /\ bound = 2
    /\ Cardinality({a \in Accounts : InFlight(a)}) = 2
    /\ \E a \in Accounts : pc[a] = "waiting"

\* C4: a task that has ended holds no slot, whichever way it ended (return,
\* sentinel, exception out of the async with, cancellation), and once all
\* tasks have ended the semaphore's value is the value it was built with.
C4_SlotsReleased ==
    /\ \A a \in Accounts : pc[a] \in Ended => a \notin slots
    /\ value = bound - Cardinality(slots)
    /\ AllEnded => value = bound

C4_Witness ==
    /\ AllEnded
    /\ \E a \in Accounts : pc[a] = "raised"
    /\ \E a \in Accounts : result[a] = "0"
    /\ value = bound

\* C5: when attempt k of check_eligible is the first that does not raise,
\* the wrapper returns its result after exactly k attempts, k-1 logged
\* failures and k-1 delays, with k in 1..3; no fourth attempt is ever made.
C5_FirstSuccessEndsLoop ==
    \A a \in Accounts :
        /\ calls[a].elig <= 3
        /\ result[a] = "None" =>
              /\ pc[a] = "done"
              /\ report[a] # "none"
              /\ calls[a].elig = i[a] + 1
              /\ errLogged[a] = calls[a].elig - 1
              /\ delays[a] = calls[a].elig - 1

C5_Witness ==
    \E a \in Accounts :
        /\ result[a] = "None"
        /\ calls[a].elig = 3
        /\ errLogged[a] = 2

\* C6: when all 3 attempts raise, the wrapper has made exactly 3 attempts,
\* logged 3 failures and slept 2 times, and returns the sentinel 0; no error
\* of check_eligible reaches start_work, whose task then ends normally.
C6_ExhaustionReturnsSentinel ==
    \A a \in Accounts :
        /\ result[a] = "0" =>
              /\ pc[a] = "done"
              /\ calls[a].elig = 3
              /\ errLogged[a] = 3
              /\ delays[a] = 2
              /\ report[a] = "none"
        /\ errLogged[a] = 3 => result[a] = "0"
        /\ result[a] # "raised"
        /\ failedLogged[a] = 0
        /\ pc[a] = "raised" => ~ValidKey(accounts[a])

C6_Witness ==
    \E a \in Accounts : result[a] = "0" /\ pc[a] = "done"

\* C7: an attempt whose eligibility query is answered isEligible=false ends
\* the workflow with NotEligible, having made no registration query, no sign
\* call and no submission.
C7_NotEligibleStops ==
    \A a \in Accounts :
        (eligSeen[a] # <<>> /\ ~eligSeen[a][1].isEligible) =>
            /\ report[a] = "NotEligible"
            /\ result[a] = "None"
            /\ pc[a] = "done"
            /\ trace[a] = <<"elig">>
            /\ regSeen[a] = <<>>
            /\ signedLog[a] = <<>>
            /\ postLog[a] = <<>>

C7_Witness ==
    \E a \in Accounts :
        /\ eligSeen[a] # <<>>
        /\ ~eligSeen[a][1].isEligible
        /\ report[a] = "NotEligible"

\* C8: an attempt answered isEligible=true and then message 'Success' ends
\* the workflow with AlreadyRegistered, having made no sign call and no
\* submission.
C8_AlreadyRegisteredStops ==
    \A a \in Accounts :
        (/\ eligSeen[a] # <<>>
         /\ eligSeen[a][1].isEligible
         /\ regSeen[a] # <<>>
         /\ regSeen[a][1] = "Success") =>
            /\ report[a] = "AlreadyRegistered"
            /\ result[a] = "None"
            /\ pc[a] = "done"
            /\ trace[a] = <<"elig", "reg">>
            /\ signedLog[a] = <<>>
            /\ postLog[a] = <<>>

C8_Witness ==
    \E a \in Accounts :
        /\ regSeen[a] = <<"Success">>
        /\ report[a] = "AlreadyRegistered"

\* C9: when the script has ended, it ended by printing the completion
\* banner, and every account of the batch was processed: none of the tasks
\* was cancelled.
C9_BatchCompletes ==
    procPc \in {"exited", "crashed"} =>
        /\ banner
        /\ procPc = "exited"
        /\ \A a \in Accounts : pc[a] # "cancelled"

\* C10: whenever a submission was made, the amount of the signed message and
\* the amount of the posted claim are eligibilities[0].amount of the
\* eligibility answer of the same attempt; nothing else is signed or posted.
C10_AmountIsEligibilityAmount ==
    \A a \in Accounts :
        /\ (signedLog[a] # <<>> \/ postLog[a] # <<>>) =>
              /\ eligSeen[a] # <<>>
              /\ eligSeen[a][1].eligibilities # <<>>
              /\ Len(signedLog[a]) = 1
              /\ Len(postLog[a]) = 1
              /\ signedLog[a][1].amount = eligSeen[a][1].eligibilities[1]
              /\ postLog[a][1].amount = eligSeen[a][1].eligibilities[1]
        /\ pc[a] = "post" => postLog[a] # <<>>

C10_Witness ==
    \E a \in Accounts :
        /\ postLog[a] # <<>>
        /\ postLog[a][1].amount = "100"
        /\ report[a] = "RegisteredSuccess"
        /\ i[a] > 0

\* C11: an account whose 3 attempts all raised (the wrapper returned the
\* sentinel) is reported by start_work as failed, with one 'ID account:..
\* Failed' line, which no account whose workflow returned normally gets.
C11_ExhaustionReportedByStartWork ==
    \A a \in Accounts :
        /\ (pc[a] = "done" /\ result[a] = "0") => failedLogged[a] = 1
        /\ (pc[a] = "done" /\ result[a] = "None") => failedLogged[a] = 0

\* the outcomes the program has produced for account a: the decision logged
\* by check_eligible, and WorkerError for the sentinel or a 'Failed' line
Outcomes(a) ==
    (IF report[a] # "none" THEN {report[a]} ELSE {})
      \cup (IF result[a] = "0" \/ failedLogged[a] > 0
            THEN {"WorkerError"} ELSE {})

\* C12: when the script has ended, every account of the batch has produced
\* exactly one outcome among NotEligible, AlreadyRegistered,
\* RegisteredSuccess, RegisteredFailure and WorkerError, and never more than
\* one before; once a terminal decision is reported for an account, the
\* account makes no further network call, attempt, delay or report.
C12_OneTerminalOutcome ==
    /\ [](\A a \in Accounts :
            /\ Cardinality(Outcomes(a)) <= 1
            /\ Outcomes(a) \subseteq {"NotEligible", "AlreadyRegistered",
                                      "RegisteredSuccess", "RegisteredFailure",
                                      "WorkerError"}
            /\ procPc \in {"exited", "crashed"}
                  => Cardinality(Outcomes(a)) = 1)
    /\ [][\A a \in Accounts :
            report[a] # "none" =>
                /\ report'[a] = report[a]
                /\ result'[a] = result[a]
                /\ calls'[a] = calls[a]
                /\ trace'[a] = trace[a]
                /\ i'[a] = i[a]
                /\ errLogged'[a] = errLogged[a]
                /\ delays'[a] = delays[a]
                /\ pc'[a] = "done"]_vars

\* no call has failed for account a: its key made a worker and none of its
\* attempts raised
NoFailure(a) == ValidKey(accounts[a]) /\ errLogged[a] = 0

\* the outcome the answers received by account a stand for
Decision(a) ==
    IF eligSeen[a] = <<>> THEN "none"
    ELSE IF ~eligSeen[a][1].isEligible THEN "NotEligible"
    ELSE IF regSeen[a] = <<>> THEN "none"
    ELSE IF regSeen[a][1] = "Success" THEN "AlreadyRegistered"
    ELSE IF postSeen[a] = <<>> THEN "none"
    ELSE IF postSeen[a][1] THEN "RegisteredSuccess"
    ELSE "RegisteredFailure"

\* C13: in a batch where no call fails, every account gets one task, one run
\* of the workflow and one eligibility query, and its outcome is the one its
\* own answers stand for: not eligible gives NotEligible, eligible and
\* 'Success' gives AlreadyRegistered, eligible, not registered and
\* success=true gives RegisteredSuccess, success=false RegisteredFailure;
\* when the script has ended, every account has its outcome.
C13_OutcomeFromOwnResponses ==
    /\ created <= Len(accounts)
    /\ \A a \in Accounts :
          NoFailure(a) =>
              /\ calls[a].elig <= 1
              /\ i[a] = 0
              /\ report[a] = Decision(a)
              /\ pc[a] = "done" =>
                    /\ calls[a].elig = 1
                    /\ report[a] # "none"
                    /\ result[a] = "None"
    /\ ((\A a \in Accounts : NoFailure(a)) /\ procPc \in {"exited", "crashed"})
          => /\ procPc = "exited"
             /\ created = Len(accounts)
             /\ \A a \in Accounts : pc[a] = "done"

C13_Witness ==
    /\ procPc = "exited"
    /\ Len(accounts) = 3
    /\ \A a \in Accounts : NoFailure(a) /\ calls[a].elig = 1
    /\ report = <<"NotEligible", "AlreadyRegistered", "RegisteredSuccess">>

\* C14: the tasks get their admission slots in the order the accounts were
\* enumerated, whatever the value of the semaphore: the k-th slot handed out
\* goes to the task of row k, so that when task j has its slot every task
\* i < j got its own before.
C14_AdmittedInOrder ==
    /\ \A k \in 1..Len(admitted) : admitted[k] = k
    /\ \A a \in Accounts :
          (a \in slots \/ calls[a].elig > 0) =>
              \E k \in 1..Len(admitted) : admitted[k] = a

C14_Witness ==
    /\ Len(accounts) = 3
    /\ bound = 1
    /\ admitted = <<1, 2, 3>>
    /\ pc[3] = "elig"
    /\ \E a \in Accounts : delays[a] > 0

\* C15: in every state where main has finished, by return or by error, every
\* account task has ended: none is still to start, waiting for a slot,
\* holding one, or in the middle of its workflow.
C15_MainEndsAfterAllTasks ==
    mainPc \in {"returned", "raised"} =>
        \A a \in Accounts : pc[a] \in Ended /\ a \notin slots

\* the value of a uint256 field of the typed data given as a decimal string
Uint256(str) == IF str = "10" THEN 10 ELSE -1

\* C17: whatever is signed or posted is a self-claim, and the two agree: in
\* the signed message and in the posted claim eligibleAddress and
\* receivingAddress are the address of the account's own key, tokenType is
\* HYPER, the chain id is 10 and the amount is the same; the posted
\* signature is "0x" followed by the signature made by the account's key
\* over exactly the signed message.
C17_SelfClaimSignedAsPosted ==
    \A a \in Accounts :
        /\ \A k \in 1..Len(signedLog[a]) :
              LET m == signedLog[a][k]
              IN  /\ m.eligibleAddress = address(accounts[a])
                  /\ m.receivingAddress = address(accounts[a])
                  /\ m.tokenType = "HYPER"
                  /\ Uint256(m.chainId) = 10
        /\ Len(postLog[a]) = Len(signedLog[a])
        /\ \A k \in 1..Len(postLog[a]) :
              LET c == postLog[a][k]
                  m == signedLog[a][k]
              IN  /\ c.eligibleAddress = address(accounts[a])
                  /\ c.receivingAddress = address(accounts[a])
                  /\ c.tokenType = "HYPER"
                  /\ c.chainId = 10
                  /\ c.amount = m.amount
                  /\ c.signature = <<"0x", <<"sig", accounts[a], m>> >>

C17_Witness ==
    \E a \in Accounts :
        /\ accounts[a] = 2
        /\ pc[a] = "post"
        /\ postLog[a] # <<>>
        /\ postLog[a][1].receivingAddress = address(2)
        /\ postLog[a][1].amount = "100"

\* C18: every attempt starts with the eligibility query and with nothing of
\* an earlier attempt: while that query is out, the attempt has no amount,
\* no registration answer, no signature and no claim.  An account makes at
\* most 3 eligibility queries, 3 registration queries and 3 submissions, and
\* an attempt that has posted a claim was answered, itself, eligible by its
\* eligibility query and not registered by its registration query, in that
\* order.
C18_AttemptsStartAfresh ==
    \A a \in Accounts :
        /\ calls[a].elig <= retries
        /\ calls[a].reg <= retries
        /\ calls[a].post <= retries
        /\ calls[a].elig > 0 => (calls[a].elig = i[a] + 1 /\ trace[a][1] = "elig")
        /\ calls[a].reg <= calls[a].elig
        /\ calls[a].post <= calls[a].reg
        /\ Count(trace[a], "elig") <= 1
        /\ Count(trace[a], "reg") <= 1
        /\ pc[a] = "elig" =>
              /\ trace[a] = <<"elig">>
              /\ amount[a] = Unbound
              /\ eligSeen[a] = <<>>
              /\ regSeen[a] = <<>>
              /\ signedLog[a] = <<>>
              /\ postLog[a] = <<>>
              /\ postSeen[a] = <<>>
        /\ postLog[a] # <<>> =>
              /\ trace[a] = <<"elig", "reg", "sign", "post">>
              /\ eligSeen[a] # <<>>
              /\ eligSeen[a][1].isEligible
              /\ regSeen[a] # <<>>
              /\ regSeen[a][1] # "Success"

\* a third attempt, after two attempts that both posted a claim
C18_Witness ==
    \E a \in Accounts :
        /\ calls[a].elig = 3
        /\ calls[a].reg = 2
        /\ calls[a].post = 2
        /\ pc[a] = "elig"

\* C19: a task holds its admission slot during every attempt and every delay
\* of its account.  With the semaphore of 1, account b makes its first
\* network call only when every attempt and delay of each account a < b is
\* over, and the accounts reach their terminal state in the order of
\* enumeration.
C19_SlotHeldAcrossRetries ==
    /\ \A a \in Accounts :
          pc[a] \in {"elig", "reg", "post", "sleep"} => a \in slots
    /\ bound = 1 =>
          \A a, b \in Accounts :
              a < b =>
                  /\ calls[b].elig > 0 => pc[a] \in Ended
                  /\ pc[b] \in Ended => pc[a] \in Ended

\* C20: the except of start_work never reports a failure of the workflow:
\* no 'ID account:.. Failed' line is ever logged and no error of
\* check_eligible reaches start_work.  Whatever an attempt raised (a failed
\* request, a response of unexpected shape, an error of the signer), the
\* wrapper logged it, and retries after a delay unless it was the third
\* attempt, after which it returns the sentinel.
C20_OuterGuardNeverFires ==
    \A a \in Accounts :
        /\ failedLogged[a] = 0
        /\ result[a] \in {"pending", "None", "0"}
        /\ pc[a] = "raised" => calls[a].elig = 0
        /\ InFlight(a) =>
              (errLogged[a] = i[a] /\ delays[a] = i[a] /\ i[a] < retries)
        /\ pc[a] = "sleep" =>
              /\ errLogged[a] = i[a] + 1
              /\ delays[a] = i[a] + 1
              /\ i[a] < retries - 1
              /\ result[a] = "pending"
        /\ (pc[a] = "done" /\ result[a] # "None") =>
              (result[a] = "0" /\ errLogged[a] = retries /\ i[a] = retries - 1)

\* the second attempt raised in the signer, after a first attempt that raised
\* too: the wrapper logged both and sleeps before the third
C20_Witness ==
    \E a \in Accounts :
        /\ pc[a] = "sleep"
        /\ i[a] = 1
        /\ trace[a] = <<"elig", "reg", "sign">>
        /\ errLogged[a] = 2
        /\ delays[a] = 2

====
